---- MODULE Spec2Model ----
(***************************************************************************)
(* Model of the Pomodoro timer: the timer core (src/core/timer_logic.py,    *)
(* TimerCore; specification Spec), the settings (src/config/               *)
(* settings_manager.py, SettingsManager; specification SpecSettings) and   *)
(* the application's event handlers (src/app.py, PomodoroApp;              *)
(* specifications SpecApp and SpecAppLive), with the configuration window  *)
(* on top (src/ui/config_window.py, ConfigWindow; specification            *)
(* SpecConfig). SpecRun and SpecCycle drive the timer core alone, keeping  *)
(* account of the time it ran and of the callbacks it fired; SpecLegacy    *)
(* runs it next to the legacy timer (src/timer.py, PomodoroTimer).         *)
(*                                                                         *)
(* The wall clock (time.time()) is a rational number of seconds; it is     *)
(* represented in ticks of 1/Res second, so `now` and `target_end_time`    *)
(* are integers counting ticks, while `duration`, `work_duration_seconds`  *)
(* and `pause_duration_seconds` are whole seconds as in the source.        *)
(***************************************************************************)
EXTENDS Integers, Sequences, FiniteSets, TLC

\* ---------------------------------------------------------------- bounds

\* Clock ticks per second (resolution of the modelled clock).
Res == 2
\* Last clock reading of the model, in ticks.
MaxNow == 8
\* Largest duration, in seconds, handed to the constructor.
MaxSec == 2
\* Largest number of minutes handed to set_work_duration / set_pause_duration.
MaxMin == 1
\* Largest number of setter calls on the settings in one behavior.
MaxSets == 2
\* Largest number of options in the settings file found at start.
MaxFileOptions == 1
\* Number of clock jumps of nearly a minute in the application specification.
MaxJumps == 2
\* Largest number of update_display callbacks pending on the event loop.
MaxPending == 2

\* ------------------------------------------------------ program constants

\* minutes * 60 in set_work_duration / set_pause_duration.
SecondsPerMinute == 60
\* target_end_time: Optional[float] = None
None == -1

TIMER_PHASE_WORK == "work"
TIMER_PHASE_PAUSE == "pause"

\* ------------------------------------------------------------------ state

VARIABLES
    timer,                 \* the TimerCore object: a record of its fields
    now,                   \* time.time(), in ticks
    pc,                    \* where update() is: "idle", or suspended in a callback
    op,                    \* history: the last thing that happened (a method, or "advance")
    pre,                   \* history: the timer as the last method call found it
    args,                  \* history: the arguments of the last method call
    fired,                 \* history: callbacks invoked by the current or last update()
    update_at,             \* history: the clock reading at which that update() was entered
    fresh_start,           \* history: the clock reading of a start() from the freshly
                           \*   reset state, while nothing but update() was called since
    pause_zero_throughout, \* history: pause_duration_seconds has always been 0
    config,                \* SettingsManager.config: the configparser object
    file,                  \* the settings file
    saved,                 \* history: the parser as the last save_settings() found it
    nsets,                 \* history: the number of setter calls so far
    pending,               \* update_display callbacks scheduled with window.after
    scheduled,             \* history: callbacks scheduled by the last handler
    legacy,                \* the PomodoroTimer object of src/timer.py: its timer fields
    log,                   \* history: the callbacks invoked since construction
    ran                    \* history: ticks of running time in the current phase

settings_vars == <<config, file, saved, nsets>>

app_vars == <<pending, scheduled>>

run_vars == <<legacy, log, ran>>

vars == <<timer, now, pc, op, pre, args, fired, update_at, fresh_start,
          pause_zero_throughout, settings_vars, app_vars, run_vars>>

Max(a, b) == IF a >= b THEN a ELSE b

\* Python's int() on a float given in ticks: truncation toward zero.
IntSeconds(ticks) ==
    IF ticks >= 0 THEN ticks \div Res ELSE -((-ticks) \div Res)

\* Faulty variant of TimerCore: the cached duration starts as the pause duration.
TimerCore_pause_duration(work, pause, wcb, pcb) ==
    [ work_duration_seconds  |-> work,
      pause_duration_seconds |-> pause,
      current_phase          |-> TIMER_PHASE_WORK,
      duration               |-> pause,
      target_end_time        |-> None,
      running                |-> FALSE,
      on_work_complete       |-> wcb,
      on_pause_complete      |-> pcb ]

\* TimerCore.__init__
TimerCore(work, pause, wcb, pcb) ==
    [ work_duration_seconds  |-> work,
      pause_duration_seconds |-> pause,
      current_phase          |-> TIMER_PHASE_WORK,
      duration               |-> work,
      target_end_time        |-> None,
      running                |-> FALSE,
      on_work_complete       |-> wcb,
      on_pause_complete      |-> pcb ]

\* Faulty variant of get_time_left: returns the cached duration even while running.
get_time_left_cached(t, clock) == t.duration

\* TimerCore.get_time_left at clock reading `clock`
get_time_left(t, clock) ==
    IF ~t.running \/ t.target_end_time = None
    THEN t.duration
    ELSE Max(0, IntSeconds(t.target_end_time - clock))

\* Faulty variant of is_finished: finished only once the clock is past the deadline.
is_finished_strict(t, clock) ==
    t.running /\ t.target_end_time # None /\ clock > t.target_end_time

\* Faulty variant of is_finished: a running timer counts as finished whatever its
\* remaining time.
is_finished_running_only(t, clock) == t.running

\* Faulty variant of is_finished: the running flag is not consulted.
is_finished_time_only(t, clock) == get_time_left(t, clock) = 0

\* TimerCore.is_finished
is_finished(t, clock) == t.running /\ get_time_left(t, clock) = 0

\* Faulty variant of start: restarts from the configured work duration instead of the
\* cached remaining time.
start_full_duration(t, clock) ==
    IF ~t.running
    THEN [t EXCEPT !.running = TRUE,
                   !.target_end_time = clock + t.work_duration_seconds * Res]
    ELSE t

\* Faulty variant of start: no `if not self.running` guard, the deadline is recomputed.
start_unguarded(t, clock) ==
    LET t1 == [t EXCEPT !.running = TRUE]
    IN  [t1 EXCEPT !.target_end_time = clock + get_time_left(t1, clock) * Res]

\* TimerCore.start: running is set before get_time_left() is read
start(t, clock) ==
    IF ~t.running
    THEN LET t1 == [t EXCEPT !.running = TRUE]
         IN  [t1 EXCEPT !.target_end_time = clock + get_time_left(t1, clock) * Res]
    ELSE t

\* Faulty variant of pause: the remaining time is stored without the clamp at 0.
pause_no_clamp(t, clock) ==
    IF t.running
    THEN [t EXCEPT !.duration = IntSeconds(t.target_end_time - clock),
                   !.target_end_time = None,
                   !.running = FALSE]
    ELSE t

\* TimerCore.pause
pause(t, clock) ==
    IF t.running
    THEN [t EXCEPT !.duration = get_time_left(t, clock),
                   !.target_end_time = None,
                   !.running = FALSE]
    ELSE t

\* Faulty variant of toggle: always starts.
toggle_always_start(t, clock) == start(t, clock)

\* TimerCore.toggle
toggle(t, clock) == IF t.running THEN pause(t, clock) ELSE start(t, clock)

\* Faulty variant of reset: the phase is not set back to WORK.
reset_keeps_phase(t) ==
    [t EXCEPT !.duration = t.work_duration_seconds,
              !.target_end_time = None,
              !.running = FALSE]

\* TimerCore.reset
reset(t) ==
    [t EXCEPT !.current_phase = TIMER_PHASE_WORK,
              !.duration = t.work_duration_seconds,
              !.target_end_time = None,
              !.running = FALSE]

\* Faulty variant of set_work_duration: zero minutes are accepted.
set_work_duration_nonneg(t, minutes) ==
    IF minutes >= 0
    THEN LET t1 == [t EXCEPT !.work_duration_seconds = minutes * SecondsPerMinute]
         IN  IF t1.current_phase = TIMER_PHASE_WORK
             THEN [t1 EXCEPT !.duration = t1.work_duration_seconds]
             ELSE t1
    ELSE t

\* TimerCore.set_work_duration
set_work_duration(t, minutes) ==
    IF minutes > 0
    THEN LET t1 == [t EXCEPT !.work_duration_seconds = minutes * SecondsPerMinute]
         IN  IF t1.current_phase = TIMER_PHASE_WORK
             THEN [t1 EXCEPT !.duration = t1.work_duration_seconds]
             ELSE t1
    ELSE t

\* Faulty variant of set_pause_duration: the cached duration is assigned in either
\* phase.
set_pause_duration_always_live(t, minutes) ==
    IF minutes >= 0
    THEN [t EXCEPT !.pause_duration_seconds = minutes * SecondsPerMinute,
                   !.duration = minutes * SecondsPerMinute]
    ELSE t

\* TimerCore.set_pause_duration
set_pause_duration(t, minutes) ==
    IF minutes >= 0
    THEN LET t1 == [t EXCEPT !.pause_duration_seconds = minutes * SecondsPerMinute]
         IN  IF t1.current_phase = TIMER_PHASE_PAUSE
             THEN [t1 EXCEPT !.duration = t1.pause_duration_seconds]
             ELSE t1
    ELSE t

\* Faulty variant of _transition_to_pause: the pause phase is not started.
transition_to_pause_not_started(t, clock) ==
    [t EXCEPT !.current_phase = TIMER_PHASE_PAUSE,
              !.duration = t.pause_duration_seconds]

\* TimerCore._transition_to_pause
transition_to_pause(t, clock) ==
    start([t EXCEPT !.current_phase = TIMER_PHASE_PAUSE,
                    !.duration = t.pause_duration_seconds], clock)

\* Faulty variant of _transition_to_work: the duration is not set to the work duration.
transition_to_work_keeps_duration(t) ==
    [t EXCEPT !.current_phase = TIMER_PHASE_WORK]

\* TimerCore._transition_to_work
transition_to_work(t) ==
    [t EXCEPT !.current_phase = TIMER_PHASE_WORK,
              !.duration = t.work_duration_seconds]

\* Faulty variant of update, lines 104-105: the target is not cleared.
update_stop_keeps_target(t) == [t EXCEPT !.running = FALSE]

\* Faulty variant of update_stop: the finished phase is left running with its
\* deadline while the callback runs.
update_stop_skipped(t) == t

\* TimerCore.update, lines 104-105: the finished phase is stopped
update_stop(t) == [t EXCEPT !.running = FALSE, !.target_end_time = None]

\* Faulty variant of update, line 113: the pause phase is entered even when its
\* duration is 0.
update_transition_always_pause(t, clock) ==
    IF t.current_phase = TIMER_PHASE_WORK
    THEN transition_to_pause(t, clock)
    ELSE IF t.current_phase = TIMER_PHASE_PAUSE THEN transition_to_work(t) ELSE t

\* TimerCore.update, lines 112-114 and 120-121: what follows the callback
update_transition(t, clock) ==
    IF t.current_phase = TIMER_PHASE_WORK
    THEN IF t.pause_duration_seconds > 0 THEN transition_to_pause(t, clock) ELSE t
    ELSE IF t.current_phase = TIMER_PHASE_PAUSE THEN transition_to_work(t) ELSE t

\* The callback update() invokes for the phase that finished, if registered
update_callback(t) ==
    IF t.current_phase = TIMER_PHASE_WORK
    THEN IF t.on_work_complete THEN "work" ELSE "none"
    ELSE IF t.on_pause_complete THEN "pause" ELSE "none"

\* TimerCore.update when the callback, if any, returns at once
update(t, clock) ==
    IF is_finished(t, clock) THEN update_transition(update_stop(t), clock) ELSE t

\* ------------------------------------------------------ the legacy timer
\* PomodoroTimer (src/timer.py): the timer fields of the single-class
\* application that TimerCore replaced.

\* PomodoroTimer.__init__, lines 46-57: the timer state, once the default
\* duration has been loaded
PomodoroTimer(default_duration_seconds) ==
    [ duration                 |-> default_duration_seconds,
      target_end_time          |-> None,
      running                  |-> FALSE,
      default_duration_seconds |-> default_duration_seconds ]

\* PomodoroTimer.__init__, line 51: the built-in default, 25 minutes
LEGACY_DEFAULT_DURATION_SECONDS == 25 * SecondsPerMinute

\* PomodoroTimer.get_time_left
PomodoroTimer_get_time_left(l, clock) ==
    IF ~l.running \/ l.target_end_time = None
    THEN l.duration
    ELSE Max(0, IntSeconds(l.target_end_time - clock))

\* PomodoroTimer.update_display, lines 242-245: the expiry check
PomodoroTimer_update_display(l, clock) ==
    IF l.running /\ PomodoroTimer_get_time_left(l, clock) = 0
    THEN [l EXCEPT !.running = FALSE, !.target_end_time = None]
    ELSE l

\* PomodoroTimer.toggle_timer: the running flag is flipped before
\* get_time_left() is read
PomodoroTimer_toggle_timer(l, clock) ==
    LET l1 == [l EXCEPT !.running = ~l.running]
    IN  IF l1.running
        THEN PomodoroTimer_update_display(
                 [l1 EXCEPT !.target_end_time =
                                clock + PomodoroTimer_get_time_left(l1, clock) * Res],
                 clock)
        ELSE [l1 EXCEPT !.duration = PomodoroTimer_get_time_left(l1, clock),
                        !.target_end_time = None]

\* PomodoroTimer.reset_timer
PomodoroTimer_reset_timer(l, clock) ==
    PomodoroTimer_update_display(
        [l EXCEPT !.duration = l.default_duration_seconds,
                  !.target_end_time = None,
                  !.running = FALSE],
        clock)

\* PomodoroTimer.prompt_duration with the integer the dialog returned
PomodoroTimer_prompt_duration(l, minutes, clock) ==
    PomodoroTimer_reset_timer(
        [l EXCEPT !.duration = minutes * SecondsPerMinute,
                  !.default_duration_seconds = minutes * SecondsPerMinute],
        clock)

\* --------------------------------------------------------------- settings
\* SettingsManager (src/config/settings_manager.py) over configparser.
\* A stored value is a text: a sequence of characters. The parser `config`
\* and the file are records of the sections present and of the options
\* present with their texts.

\* Built-in defaults. core/constants.py is not among the sources at hand: the
\* work and pause defaults and the alert defaults are the documented ones,
\* the others stand for whatever the constants are.
DEFAULT_DURATION_MINUTES == 25
DEFAULT_PAUSE_DURATION_MINUTES == 5
DEFAULT_SHOW_WORK_ALERT == TRUE
DEFAULT_SHOW_PAUSE_ALERT == TRUE
DEFAULT_WINDOW_X == 100
DEFAULT_WINDOW_Y == 100
DEFAULT_FONT_SIZE == 48
COLOR_WORK_TIMER_DEFAULT == <<"r", "e", "d">>
COLOR_PAUSE_TIMER_DEFAULT == <<"l", "i", "m", "e">>

Digits == <<"0", "1", "2", "3", "4", "5", "6", "7", "8", "9">>
IsDigit(c) == \E i \in 1..10 : Digits[i] = c
DigitValue(c) == (CHOOSE i \in 1..10 : Digits[i] = c) - 1

RECURSIVE StrNat(_)
StrNat(n) ==
    IF n < 10 THEN <<Digits[n + 1]>>
    ELSE Append(StrNat(n \div 10), Digits[(n % 10) + 1])

\* str(int)
StrInt(n) == IF n < 0 THEN <<"-">> \o StrNat(-n) ELSE StrNat(n)

\* str(bool)
StrBool(b) ==
    IF b THEN <<"T", "r", "u", "e">> ELSE <<"F", "a", "l", "s", "e">>

IsSpace(c) == c \in {" ", "\t"}

RECURSIVE LStrip(_)
LStrip(s) ==
    IF s # <<>> /\ IsSpace(Head(s)) THEN LStrip(Tail(s)) ELSE s

RECURSIVE RStrip(_)
RStrip(s) ==
    IF s # <<>> /\ IsSpace(s[Len(s)])
    THEN RStrip(SubSeq(s, 1, Len(s) - 1))
    ELSE s

\* str.strip()
Strip(s) == RStrip(LStrip(s))

RECURSIVE DigitsValue(_)
DigitsValue(s) ==
    IF s = <<>> THEN 0
    ELSE DigitsValue(SubSeq(s, 1, Len(s) - 1)) * 10 + DigitValue(s[Len(s)])

\* int(str): surrounding whitespace is ignored, a sign may precede the
\* digits, and at least one digit is required; anything else is a
\* ValueError (ok = FALSE).
ParseInt(s) ==
    LET t == Strip(s)
        signed == t # <<>> /\ Head(t) \in {"+", "-"}
        d == IF signed THEN Tail(t) ELSE t
    IN  IF d # <<>> /\ \A i \in 1..Len(d) : IsDigit(d[i])
        THEN [ok |-> TRUE,
              value |-> IF signed /\ Head(t) = "-"
                        THEN -DigitsValue(d) ELSE DigitsValue(d)]
        ELSE [ok |-> FALSE, value |-> 0]

UpperCase == <<"A", "E", "F", "L", "N", "O", "R", "S", "T", "U", "Y">>
LowerCase == <<"a", "e", "f", "l", "n", "o", "r", "s", "t", "u", "y">>

\* str.lower(), on the letters that occur in the modelled texts
Lower(s) ==
    [i \in 1..Len(s) |->
        IF \E j \in 1..Len(UpperCase) : UpperCase[j] = s[i]
        THEN LowerCase[CHOOSE j \in 1..Len(UpperCase) : UpperCase[j] = s[i]]
        ELSE s[i]]

\* RawConfigParser.BOOLEAN_STATES
BooleanTrue == {<<"1">>, <<"y", "e", "s">>, <<"t", "r", "u", "e">>, <<"o", "n">>}
BooleanFalse == {<<"0">>, <<"n", "o">>, <<"f", "a", "l", "s", "e">>, <<"o", "f", "f">>}

\* RawConfigParser._convert_to_boolean: a text outside BOOLEAN_STATES is a
\* ValueError (ok = FALSE).
ParseBoolean(s) ==
    IF Lower(s) \in BooleanTrue THEN [ok |-> TRUE, value |-> TRUE]
    ELSE IF Lower(s) \in BooleanFalse THEN [ok |-> TRUE, value |-> FALSE]
    ELSE [ok |-> FALSE, value |-> FALSE]

\* BasicInterpolation.before_get: "%%" stands for "%"; a "%" followed by
\* anything else but "(" is an InterpolationSyntaxError (ok = FALSE). The
\* modelled texts hold no "%(name)s" references.
RECURSIVE Interpolate(_)
Interpolate(s) ==
    IF s = <<>> THEN [ok |-> TRUE, value |-> <<>>]
    ELSE IF Head(s) # "%"
    THEN LET r == Interpolate(Tail(s))
         IN  [ok |-> r.ok, value |-> IF r.ok THEN <<Head(s)>> \o r.value ELSE <<>>]
    ELSE IF Len(s) >= 2 /\ s[2] = "%"
    THEN LET r == Interpolate(Tail(Tail(s)))
         IN  [ok |-> r.ok, value |-> IF r.ok THEN <<"%">> \o r.value ELSE <<>>]
    ELSE [ok |-> FALSE, value |-> <<>>]

Sections == {"Window", "Display", "Timer", "Alerts"}

WindowOptions == {"x", "y", "always_on_top"}
DisplayOptions == {"font_size", "font_path", "work_timer_color", "pause_timer_color"}
TimerOptions == {"custom_duration_minutes", "pause_duration_minutes"}
AlertsOptions == {"show_work_complete_alert", "show_pause_complete_alert"}
Options == WindowOptions \cup DisplayOptions \cup TimerOptions \cup AlertsOptions

\* The section an option of the settings file belongs to.
SectionOf(k) ==
    IF k \in WindowOptions THEN "Window"
    ELSE IF k \in DisplayOptions THEN "Display"
    ELSE IF k \in TimerOptions THEN "Timer"
    ELSE "Alerts"

\* configparser.ConfigParser() without content
EmptyConfig == [sections |-> {}, opts |-> [k \in {} |-> <<>>]]

has_section(c, s) == s \in c.sections
has_option(c, k) == has_section(c, SectionOf(k)) /\ k \in DOMAIN c.opts

\* The body shared by the setters: add_section when the section is missing,
\* then config.set(section, option, text).
config_set(c, k, text) ==
    [sections |-> c.sections \cup {SectionOf(k)},
     opts |-> [j \in DOMAIN c.opts \cup {k} |->
                  IF j = k THEN text ELSE c.opts[j]]]

\* config.get: NoSectionError / NoOptionError when the option is missing,
\* InterpolationSyntaxError from the interpolation (ok = FALSE).
config_get(c, k) ==
    IF has_option(c, k) THEN Interpolate(c.opts[k])
    ELSE [ok |-> FALSE, value |-> <<>>]

\* config.getint
getint(c, k) ==
    LET g == config_get(c, k)
    IN  IF g.ok THEN ParseInt(g.value) ELSE [ok |-> FALSE, value |-> 0]

\* config.getboolean
getboolean(c, k) ==
    LET g == config_get(c, k)
    IN  IF g.ok THEN ParseBoolean(g.value) ELSE [ok |-> FALSE, value |-> FALSE]

\* What a getter call does: it returns a value or raises.
Returns(v) == [raised |-> FALSE, value |-> v]
Raises(placeholder) == [raised |-> TRUE, value |-> placeholder]

\* SettingsManager.get_window_position: any error inside the try block gives
\* the default pair.
get_window_position(c) ==
    IF has_section(c, "Window") /\ getint(c, "x").ok /\ getint(c, "y").ok
    THEN Returns(<<getint(c, "x").value, getint(c, "y").value>>)
    ELSE Returns(<<DEFAULT_WINDOW_X, DEFAULT_WINDOW_Y>>)

\* SettingsManager.get_font_size
get_font_size(c) ==
    IF has_section(c, "Display") /\ getint(c, "font_size").ok
    THEN Returns(getint(c, "font_size").value)
    ELSE Returns(DEFAULT_FONT_SIZE)

\* SettingsManager.get_font_path: Optional[str], <<>> for None and <<text>>
\* for a string; config.get is not inside a try block.
get_font_path(c) ==
    IF has_option(c, "font_path")
    THEN IF config_get(c, "font_path").ok
         THEN Returns(<<config_get(c, "font_path").value>>)
         ELSE Raises(<<>>)
    ELSE Returns(<<>>)

\* Faulty variant of get_custom_duration_minutes: the stored value is returned
\* without the `duration > 0` test.
get_custom_duration_minutes_unchecked(c) ==
    IF /\ has_option(c, "custom_duration_minutes")
       /\ getint(c, "custom_duration_minutes").ok
    THEN Returns(getint(c, "custom_duration_minutes").value)
    ELSE Returns(DEFAULT_DURATION_MINUTES)

\* SettingsManager.get_custom_duration_minutes
get_custom_duration_minutes(c) ==
    IF /\ has_option(c, "custom_duration_minutes")
       /\ getint(c, "custom_duration_minutes").ok
       /\ getint(c, "custom_duration_minutes").value > 0
    THEN Returns(getint(c, "custom_duration_minutes").value)
    ELSE Returns(DEFAULT_DURATION_MINUTES)

\* SettingsManager.get_pause_duration_minutes
get_pause_duration_minutes(c) ==
    IF /\ has_option(c, "pause_duration_minutes")
       /\ getint(c, "pause_duration_minutes").ok
       /\ getint(c, "pause_duration_minutes").value >= 0
    THEN Returns(getint(c, "pause_duration_minutes").value)
    ELSE Returns(DEFAULT_PAUSE_DURATION_MINUTES)

\* The body shared by get_work_timer_color and get_pause_timer_color:
\* config.get is not inside a try block.
get_color(c, k, default) ==
    IF has_option(c, k)
    THEN IF config_get(c, k).ok THEN Returns(config_get(c, k).value)
         ELSE Raises(<<>>)
    ELSE Returns(default)

get_work_timer_color(c) == get_color(c, "work_timer_color", COLOR_WORK_TIMER_DEFAULT)
get_pause_timer_color(c) == get_color(c, "pause_timer_color", COLOR_PAUSE_TIMER_DEFAULT)

\* The body shared by get_show_work_alert, get_show_pause_alert and
\* get_always_on_top: config.getboolean is not inside a try block.
get_flag(c, k, default) ==
    IF has_option(c, k)
    THEN IF getboolean(c, k).ok THEN Returns(getboolean(c, k).value)
         ELSE Raises(FALSE)
    ELSE Returns(default)

get_show_work_alert(c) ==
    get_flag(c, "show_work_complete_alert", DEFAULT_SHOW_WORK_ALERT)
get_show_pause_alert(c) ==
    get_flag(c, "show_pause_complete_alert", DEFAULT_SHOW_PAUSE_ALERT)
get_always_on_top(c) == get_flag(c, "always_on_top", TRUE)

\* The getters of SettingsManager.
Getters == {"get_window_position", "get_font_size", "get_font_path",
            "get_custom_duration_minutes", "get_pause_duration_minutes",
            "get_work_timer_color", "get_pause_timer_color",
            "get_show_work_alert", "get_show_pause_alert", "get_always_on_top"}

\* The options a getter reads.
OptionsOf(g) ==
    CASE g = "get_window_position" -> {"x", "y"}
      [] g = "get_font_size" -> {"font_size"}
      [] g = "get_font_path" -> {"font_path"}
      [] g = "get_custom_duration_minutes" -> {"custom_duration_minutes"}
      [] g = "get_pause_duration_minutes" -> {"pause_duration_minutes"}
      [] g = "get_work_timer_color" -> {"work_timer_color"}
      [] g = "get_pause_timer_color" -> {"pause_timer_color"}
      [] g = "get_show_work_alert" -> {"show_work_complete_alert"}
      [] g = "get_show_pause_alert" -> {"show_pause_complete_alert"}
      [] g = "get_always_on_top" -> {"always_on_top"}

\* The outcome of calling getter g on parser c.
Get(c, g) ==
    CASE g = "get_window_position" -> get_window_position(c)
      [] g = "get_font_size" -> get_font_size(c)
      [] g = "get_font_path" -> get_font_path(c)
      [] g = "get_custom_duration_minutes" -> get_custom_duration_minutes(c)
      [] g = "get_pause_duration_minutes" -> get_pause_duration_minutes(c)
      [] g = "get_work_timer_color" -> get_work_timer_color(c)
      [] g = "get_pause_timer_color" -> get_pause_timer_color(c)
      [] g = "get_show_work_alert" -> get_show_work_alert(c)
      [] g = "get_show_pause_alert" -> get_show_pause_alert(c)
      [] g = "get_always_on_top" -> get_always_on_top(c)

\* The built-in default of getter g.
DefaultOf(g) ==
    CASE g = "get_window_position" -> <<DEFAULT_WINDOW_X, DEFAULT_WINDOW_Y>>
      [] g = "get_font_size" -> DEFAULT_FONT_SIZE
      [] g = "get_font_path" -> <<>>
      [] g = "get_custom_duration_minutes" -> DEFAULT_DURATION_MINUTES
      [] g = "get_pause_duration_minutes" -> DEFAULT_PAUSE_DURATION_MINUTES
      [] g = "get_work_timer_color" -> COLOR_WORK_TIMER_DEFAULT
      [] g = "get_pause_timer_color" -> COLOR_PAUSE_TIMER_DEFAULT
      [] g = "get_show_work_alert" -> DEFAULT_SHOW_WORK_ALERT
      [] g = "get_show_pause_alert" -> DEFAULT_SHOW_PAUSE_ALERT
      [] g = "get_always_on_top" -> TRUE

\* Every getter's outcome on parser c.
AllGetters(c) == [g \in Getters |-> Get(c, g)]

\* SettingsManager._create_default_config: each of the four sections is
\* replaced by its defaults, whatever the parser held.
create_default_config ==
    [sections |-> Sections,
     opts |-> [k \in Options \ {"font_path"} |->
        CASE k = "x" -> StrInt(DEFAULT_WINDOW_X)
          [] k = "y" -> StrInt(DEFAULT_WINDOW_Y)
          [] k = "always_on_top" -> StrBool(TRUE)
          [] k = "font_size" -> StrInt(DEFAULT_FONT_SIZE)
          [] k = "work_timer_color" -> COLOR_WORK_TIMER_DEFAULT
          [] k = "pause_timer_color" -> COLOR_PAUSE_TIMER_DEFAULT
          [] k = "custom_duration_minutes" -> StrInt(DEFAULT_DURATION_MINUTES)
          [] k = "pause_duration_minutes" -> StrInt(DEFAULT_PAUSE_DURATION_MINUTES)
          [] k = "show_work_complete_alert" -> StrBool(DEFAULT_SHOW_WORK_ALERT)
          [] k = "show_pause_complete_alert" -> StrBool(DEFAULT_SHOW_PAUSE_ALERT)]]

\* The settings file: missing, not parseable, or sections of "option = text"
\* lines.
MissingFile == [state |-> "missing", sections |-> {}, opts |-> [k \in {} |-> <<>>]]
CorruptFile == [state |-> "corrupt", sections |-> {}, opts |-> [k \in {} |-> <<>>]]

\* Faulty variant of config_write: the section headers are written without their
\* options.
config_write_headers_only(c) ==
    [state |-> "ok", sections |-> c.sections, opts |-> [k \in {} |-> <<>>]]

\* config.write(f) on a file opened with 'w': the file holds what the parser
\* holds.
config_write(c) == [state |-> "ok", sections |-> c.sections, opts |-> c.opts]

\* config.read(file) on a parseable file: the file's sections and options
\* are merged into the parser; the text of an option is stripped of
\* surrounding whitespace.
config_read(c, f) ==
    [sections |-> c.sections \cup f.sections,
     opts |-> [k \in DOMAIN c.opts \cup DOMAIN f.opts |->
                  IF k \in DOMAIN f.opts THEN Strip(f.opts[k]) ELSE c.opts[k]]]

\* SettingsManager.load_settings: a missing file is skipped by config.read,
\* a file that does not parse raises and the default configuration is
\* created.
load_settings(c, f) ==
    IF f.state = "missing" THEN c
    ELSE IF f.state = "corrupt" THEN create_default_config
    ELSE config_read(c, f)

\* SettingsManager.save_settings; the file system accepts the write.
save_settings(c) == config_write(c)

\* SettingsManager.__init__
SettingsManager(f) == load_settings(EmptyConfig, f)

\* PomodoroApp.__init__, lines 30-33 and 109-110: the timer the application
\* builds from the settings, with both completion callbacks registered.
AppTimer(c) ==
    TimerCore(get_custom_duration_minutes(c).value * SecondsPerMinute,
              get_pause_duration_minutes(c).value * SecondsPerMinute,
              TRUE, TRUE)

\* ---------------------------------------------------------------- actions

Durations == 1..MaxSec
PauseDurations == 0..MaxSec
Minutes == -1..MaxMin

\* The timer as reset() leaves it, which is also how __init__ builds it.
FreshlyReset(t) ==
    /\ t.current_phase = TIMER_PHASE_WORK
    /\ ~t.running
    /\ t.target_end_time = None
    /\ t.duration = t.work_duration_seconds

Init ==
    /\ \E w \in Durations, p \in PauseDurations, cb \in BOOLEAN :
          /\ timer = TimerCore(w, p, cb, cb)
          /\ pause_zero_throughout = (p = 0)
    /\ now = 0
    /\ pc = "idle"
    /\ op = "init"
    /\ pre = timer
    /\ args = <<>>
    /\ fired = <<>>
    /\ update_at = None
    /\ fresh_start = None
    /\ config = EmptyConfig
    /\ file = MissingFile
    /\ saved = EmptyConfig
    /\ nsets = 0
    /\ pending = 0
    /\ scheduled = 0
    /\ legacy = PomodoroTimer(LEGACY_DEFAULT_DURATION_SECONDS)
    /\ log = <<>>
    /\ ran = 0

\* A method other than update() is called from the event loop with arguments
\* a and leaves the timer as t.
CallWith(name, a, t) ==
    /\ pc = "idle"
    /\ timer' = t
    /\ op' = name
    /\ pre' = timer
    /\ args' = a
    /\ fired' = <<>>
    /\ update_at' = None
    /\ fresh_start' = IF name = "start" /\ FreshlyReset(timer) THEN now ELSE None
    /\ pause_zero_throughout' = (pause_zero_throughout /\ t.pause_duration_seconds = 0)
    /\ UNCHANGED <<now, pc, settings_vars, app_vars, run_vars>>

\* A method without arguments is called.
Call(name, t) == CallWith(name, <<>>, t)

Start == Call("start", start(timer, now))

Pause == Call("pause", pause(timer, now))

Toggle == Call("toggle", toggle(timer, now))

Reset == Call("reset", reset(timer))

SetWorkDuration ==
    \E m \in Minutes :
        CallWith("set_work_duration", <<m>>, set_work_duration(timer, m))

SetPauseDuration ==
    \E m \in Minutes :
        CallWith("set_pause_duration", <<m>>, set_pause_duration(timer, m))

\* update() is called from the event loop. When the phase has finished it is
\* stopped and the registered callback is entered; without a callback the
\* transition follows at the same clock reading.
Update ==
    /\ pc = "idle"
    /\ op' = "update"
    /\ pre' = timer
    /\ args' = <<>>
    /\ update_at' = now
    /\ fresh_start' = IF timer.running /\ timer.current_phase = TIMER_PHASE_WORK
                      THEN fresh_start ELSE None
    /\ UNCHANGED <<now, pause_zero_throughout, settings_vars, app_vars, run_vars>>
    /\ IF is_finished(timer, now)
       THEN LET cb == update_callback(timer)
                t1 == update_stop(timer)
            IN  /\ fired' = IF cb = "none" THEN <<>> ELSE <<cb>>
                /\ IF cb = "none"
                   THEN timer' = update_transition(t1, now) /\ pc' = "idle"
                   ELSE timer' = t1 /\ pc' = cb
       ELSE /\ fired' = <<>>
            /\ UNCHANGED <<timer, pc>>

\* Faulty variant of the end of update(): the transition uses the clock reading taken
\* when update() was entered, as if it ran before the callback.
CallbackReturn_stale_clock ==
    /\ pc # "idle"
    /\ timer' = update_transition(timer, update_at)
    /\ pc' = "idle"
    /\ op' = "update"
    /\ UNCHANGED <<now, pre, args, fired, update_at, fresh_start,
                   pause_zero_throughout, settings_vars, app_vars, run_vars>>

\* The callback returns (at once, or after a modal alert was dismissed) and
\* update() runs to its end.
CallbackReturn ==
    /\ pc # "idle"
    /\ timer' = update_transition(timer, now)
    /\ pc' = "idle"
    /\ op' = "update"
    /\ UNCHANGED <<now, pre, args, fired, update_at, fresh_start,
                   pause_zero_throughout, settings_vars, app_vars, run_vars>>

\* While a callback blocks in a modal alert the event loop keeps running and
\* update() is re-entered (a redraw on a focus change or a pending redraw
\* callback). The nested call runs the same code; a callback it invokes is
\* taken to return at once.
ReentrantUpdate ==
    /\ pc # "idle"
    /\ op' = "reentrant_update"
    /\ IF is_finished(timer, now)
       THEN LET cb == update_callback(timer)
            IN  /\ timer' = update_transition(update_stop(timer), now)
                /\ fired' = IF cb = "none" THEN fired ELSE Append(fired, cb)
       ELSE UNCHANGED <<timer, fired>>
    /\ UNCHANGED <<now, pc, pre, args, update_at, fresh_start,
                   pause_zero_throughout, settings_vars, app_vars, run_vars>>

\* The clock advances, by a tick or by a second. Outside update() the history
\* of the last call is dropped.
Advance ==
    /\ \E d \in {1, Res} :
          /\ now + d <= MaxNow
          /\ now' = now + d
    /\ op' = "advance"
    /\ IF pc = "idle"
       THEN /\ pre' = timer
            /\ args' = <<>>
            /\ fired' = <<>>
            /\ update_at' = None
            /\ fresh_start' = IF timer.running /\ timer.current_phase = TIMER_PHASE_WORK
                              THEN fresh_start ELSE None
       ELSE UNCHANGED <<pre, args, fired, update_at, fresh_start>>
    /\ UNCHANGED <<timer, pc, pause_zero_throughout, settings_vars, app_vars,
                   run_vars>>

Next ==
    \/ Start
    \/ Pause
    \/ Toggle
    \/ Reset
    \/ SetWorkDuration
    \/ SetPauseDuration
    \/ Update
    \/ CallbackReturn
    \/ ReentrantUpdate
    \/ Advance

Spec == Init /\ [][Next]_vars

\* ---------------------------------------------- the settings specification
\* SettingsManager on its own: setter calls, save_settings(), load_settings()
\* and a restart of the application, from a settings file of any content.

\* SettingsManager.set_window_position
set_window_position(c, x, y) ==
    config_set(config_set(c, "x", StrInt(x)), "y", StrInt(y))

\* SettingsManager.set_custom_duration_minutes
set_custom_duration_minutes(c, minutes) ==
    config_set(c, "custom_duration_minutes", StrInt(minutes))

\* SettingsManager.set_pause_duration_minutes
set_pause_duration_minutes(c, minutes) ==
    config_set(c, "pause_duration_minutes", StrInt(minutes))

\* SettingsManager.set_work_timer_color
set_work_timer_color(c, color) == config_set(c, "work_timer_color", color)

\* SettingsManager.set_pause_timer_color
set_pause_timer_color(c, color) == config_set(c, "pause_timer_color", color)

\* SettingsManager.set_show_work_alert
set_show_work_alert(c, show) ==
    config_set(c, "show_work_complete_alert", StrBool(show))

\* SettingsManager.set_show_pause_alert
set_show_pause_alert(c, show) ==
    config_set(c, "show_pause_complete_alert", StrBool(show))

\* SettingsManager.set_always_on_top
set_always_on_top(c, always_on_top) ==
    config_set(c, "always_on_top", StrBool(always_on_top))

\* Texts an option of the initial settings file may hold: integers, padded
\* integers, flags in several spellings, colors, and texts that are none of
\* these.
IntTexts == {StrInt(n) : n \in Minutes} \cup {<<" ", "2">>, <<"x">>}
FlagTexts == {StrBool(TRUE), <<"o", "f", "f">>, <<"x">>}
ColorTexts == {<<"#", "0", "0", "f">>, <<"%">>}
FileTexts(k) ==
    IF k \in {"x", "y", "font_size", "custom_duration_minutes",
              "pause_duration_minutes"} THEN IntTexts
    ELSE IF k \in {"always_on_top", "show_work_complete_alert",
                   "show_pause_complete_alert"} THEN FlagTexts
    ELSE ColorTexts

\* Colors the configuration window hands to the color setters: the color
\* picker keeps only colors Tk accepts.
Colors == {<<"#", "0", "0", "f">>, <<"b", "l", "u", "e">>}

\* The settings files the application may find at start: none, one that does
\* not parse, or one with up to MaxFileOptions options.
InitialFiles ==
    {MissingFile, CorruptFile} \cup
    { [state |-> "ok", sections |-> {SectionOf(k) : k \in DOMAIN f}, opts |-> f] :
        f \in UNION { { g \in [K -> IntTexts \cup FlagTexts \cup ColorTexts] :
                            \A k \in K : g[k] \in FileTexts(k) } :
                      K \in {K \in SUBSET Options :
                                Cardinality(K) <= MaxFileOptions} } }

\* SettingsManager() and PomodoroApp.__init__: the settings are loaded from
\* the file and the timer is built from them.
SettingsInit ==
    /\ file \in InitialFiles
    /\ config = SettingsManager(file)
    /\ saved = EmptyConfig
    /\ nsets = 0
    /\ pending = 0
    /\ scheduled = 0
    /\ timer = AppTimer(config)
    /\ legacy = PomodoroTimer(LEGACY_DEFAULT_DURATION_SECONDS)
    /\ log = <<>>
    /\ ran = 0
    /\ now = 0
    /\ pc = "idle"
    /\ op = "init"
    /\ pre = timer
    /\ args = <<>>
    /\ fired = <<>>
    /\ update_at = None
    /\ fresh_start = None
    /\ pause_zero_throughout = (timer.pause_duration_seconds = 0)

\* A setter of SettingsManager is called with arguments a and leaves the
\* parser as c.
SetterCall(name, a, c) ==
    /\ nsets < MaxSets
    /\ config' = c
    /\ nsets' = nsets + 1
    /\ op' = name
    /\ args' = a
    /\ UNCHANGED <<file, saved, timer, now, pc, pre, fired, update_at,
                   fresh_start, pause_zero_throughout, app_vars, run_vars>>

SetWindowPosition ==
    \E x \in Minutes, y \in Minutes :
        SetterCall("set_window_position", <<x, y>>,
                   set_window_position(config, x, y))

SetCustomDurationMinutes ==
    \E m \in Minutes :
        SetterCall("set_custom_duration_minutes", <<m>>,
                   set_custom_duration_minutes(config, m))

SetPauseDurationMinutes ==
    \E m \in Minutes :
        SetterCall("set_pause_duration_minutes", <<m>>,
                   set_pause_duration_minutes(config, m))

SetWorkTimerColor ==
    \E color \in Colors :
        SetterCall("set_work_timer_color", <<color>>,
                   set_work_timer_color(config, color))

SetPauseTimerColor ==
    \E color \in Colors :
        SetterCall("set_pause_timer_color", <<color>>,
                   set_pause_timer_color(config, color))

SetShowWorkAlert ==
    \E show \in BOOLEAN :
        SetterCall("set_show_work_alert", <<show>>,
                   set_show_work_alert(config, show))

SetShowPauseAlert ==
    \E show \in BOOLEAN :
        SetterCall("set_show_pause_alert", <<show>>,
                   set_show_pause_alert(config, show))

SetAlwaysOnTop ==
    \E b \in BOOLEAN :
        SetterCall("set_always_on_top", <<b>>, set_always_on_top(config, b))

\* SettingsManager.save_settings
SaveSettings ==
    /\ file' = save_settings(config)
    /\ saved' = config
    /\ op' = "save_settings"
    /\ args' = <<>>
    /\ UNCHANGED <<config, nsets, timer, now, pc, pre, fired, update_at,
                   fresh_start, pause_zero_throughout, app_vars, run_vars>>

\* SettingsManager.load_settings on the running application; op tells
\* whether it directly follows a save_settings().
LoadSettings ==
    /\ config' = load_settings(config, file)
    /\ op' = IF op = "save_settings" THEN "save_load" ELSE "load_settings"
    /\ args' = <<>>
    /\ UNCHANGED <<file, saved, nsets, timer, now, pc, pre, fired, update_at,
                   fresh_start, pause_zero_throughout, app_vars, run_vars>>

\* The application is closed and started again: SettingsManager() loads the
\* file into a new parser and PomodoroApp.__init__ builds a new timer.
Restart ==
    /\ config' = SettingsManager(file)
    /\ timer' = AppTimer(config')
    /\ pre' = timer'
    /\ op' = IF op = "save_settings" THEN "save_restart" ELSE "restart"
    /\ args' = <<>>
    /\ pause_zero_throughout' = (timer'.pause_duration_seconds = 0)
    /\ UNCHANGED <<file, saved, nsets, now, pc, fired, update_at, fresh_start,
                   app_vars, run_vars>>

SettingsNext ==
    \/ SetWindowPosition
    \/ SetCustomDurationMinutes
    \/ SetPauseDurationMinutes
    \/ SetWorkTimerColor
    \/ SetPauseTimerColor
    \/ SetShowWorkAlert
    \/ SetShowPauseAlert
    \/ SetAlwaysOnTop
    \/ SaveSettings
    \/ LoadSettings
    \/ Restart

SpecSettings == SettingsInit /\ [][SettingsNext]_vars

\* ------------------------------------------- the application specification
\* PomodoroApp (src/app.py): the handlers the Tk event loop runs, one at a
\* time. A completion alert is modal: while it is open (pc # "idle") the
\* handler that opened it is suspended inside update(), key bindings are
\* held back, and redraw and focus callbacks are still delivered.

\* The clock moves in single ticks inside windows of AppWindow ticks and
\* jumps from one window to the next, which begins JumpTicks later: a little
\* less than a minute, so that the deadline of a one-minute phase falls
\* inside the next window.
AppWindow == MaxNow \div 2
JumpTicks == SecondsPerMinute * Res - AppWindow \div 2
LastTick == MaxJumps * JumpTicks + AppWindow

\* The settings files the application is started on: those of InitialFiles
\* that leave the window and display options alone.
AppFiles ==
    {f \in InitialFiles : DOMAIN f.opts \subseteq TimerOptions \cup AlertsOptions}

\* PomodoroApp.__init__ on one of the settings files F: the settings are
\* loaded, the timer is built from them, and the first update_display()
\* (line 59) finds it stopped.
AppInitOn(F) ==
    /\ file \in F
    /\ config = SettingsManager(file)
    /\ saved = EmptyConfig
    /\ nsets = 0
    /\ timer = AppTimer(config)
    /\ now = 0
    /\ pc = "idle"
    /\ op = "init"
    /\ pre = timer
    /\ args = <<>>
    /\ fired = <<>>
    /\ update_at = None
    /\ fresh_start = None
    /\ pause_zero_throughout = (timer.pause_duration_seconds = 0)
    /\ pending = 0
    /\ scheduled = 0
    /\ legacy = PomodoroTimer(LEGACY_DEFAULT_DURATION_SECONDS)
    /\ log = <<>>
    /\ ran = 0

AppInit == AppInitOn(AppFiles)

\* PomodoroApp._on_work_complete / _on_pause_complete: the getter the
\* callback of phase cb consults before it shows the alert.
show_alert(c, cb) ==
    IF cb = TIMER_PHASE_WORK THEN get_show_work_alert(c) ELSE get_show_pause_alert(c)

\* PomodoroApp.update_display on timer t, in a handler that took `consumed`
\* callbacks off the event loop: update(), then one callback is scheduled if
\* the timer is running. When update() finds the phase finished it stops
\* the timer and invokes the callback; the callback raises if the alert
\* getter raises (the exception ends the handler), opens the modal alert if
\* the getter returns True (the handler is suspended) and returns otherwise.
\* An alert inside an alert is taken to return at once.
update_display(t, consumed) ==
    /\ update_at' = now
    /\ IF is_finished(t, now)
       THEN LET cb == update_callback(t)
                t1 == update_stop(t)
                t2 == update_transition(t1, now)
            IN  /\ fired' = IF pc = "idle" THEN <<cb>> ELSE Append(fired, cb)
                /\ IF show_alert(config, cb).raised
                   THEN /\ timer' = t1
                        /\ pc' = pc
                        /\ scheduled' = 0
                   ELSE IF show_alert(config, cb).value /\ pc = "idle"
                   THEN /\ timer' = t1
                        /\ pc' = cb
                        /\ scheduled' = 0
                   ELSE /\ timer' = t2
                        /\ pc' = pc
                        /\ scheduled' = IF t2.running THEN 1 ELSE 0
       ELSE /\ timer' = t
            /\ fired' = IF pc = "idle" THEN <<>> ELSE fired
            /\ pc' = pc
            /\ scheduled' = IF t.running THEN 1 ELSE 0
    /\ pending' = pending - consumed + scheduled'
    /\ pending' <= MaxPending

\* What every handler records, and what no handler of the timer touches.
Handler(name, a) ==
    /\ op' = name
    /\ args' = a
    /\ pre' = IF pc = "idle" THEN timer ELSE pre
    /\ UNCHANGED <<now, fresh_start, pause_zero_throughout, nsets, run_vars>>

\* PomodoroApp.toggle_timer, bound to the key 's'
ToggleTimer ==
    /\ pc = "idle"
    /\ Handler("toggle_timer", <<>>)
    /\ update_display(toggle(timer, now), 0)
    /\ UNCHANGED <<config, file, saved>>

\* PomodoroApp.reset_timer, bound to the key 'r'
ResetTimer ==
    /\ pc = "idle"
    /\ Handler("reset_timer", <<>>)
    /\ update_display(reset(timer), 0)
    /\ UNCHANGED <<config, file, saved>>

\* PomodoroApp.prompt_duration, bound to the key 'e': the dialog returns an
\* integer >= 1
PromptDuration ==
    /\ pc = "idle"
    /\ \E m \in 1..MaxMin :
          /\ Handler("prompt_duration", <<m>>)
          /\ config' = set_custom_duration_minutes(config, m)
          /\ file' = save_settings(config')
          /\ saved' = config'
          /\ update_display(reset(set_work_duration(timer, m)), 0)

\* PomodoroApp.prompt_duration when the dialog is cancelled (None)
PromptCancelled ==
    /\ pc = "idle"
    /\ Handler("prompt_cancelled", <<>>)
    /\ UNCHANGED <<timer, pc, fired, update_at, config, file, saved, app_vars,
                   run_vars>>

\* The event loop runs a callback scheduled with window.after:
\* PomodoroApp.update_display
Tick ==
    /\ pending > 0
    /\ Handler("tick", <<>>)
    /\ update_display(timer, 1)
    /\ UNCHANGED <<config, file, saved>>

\* WindowManager._on_focus_in / _on_focus_out: the focus callback is
\* PomodoroApp.update_display
Focus ==
    /\ Handler("focus", <<>>)
    /\ update_display(timer, 0)
    /\ UNCHANGED <<config, file, saved>>

\* Faulty variant of AlertClosed: update_display does not schedule a callback after
\* the transition.
AlertClosed_no_schedule ==
    /\ pc # "idle"
    /\ timer' = update_transition(timer, now)
    /\ pc' = "idle"
    /\ op' = "alert_closed"
    /\ scheduled' = 0
    /\ pending' = pending
    /\ UNCHANGED <<now, pre, args, fired, update_at, fresh_start,
                   pause_zero_throughout, settings_vars, run_vars>>

\* The alert is closed: the callback returns into update(), which makes the
\* phase transition, and update_display goes on to schedule the next
\* callback if the timer is running.
AlertClosed ==
    /\ pc # "idle"
    /\ timer' = update_transition(timer, now)
    /\ pc' = "idle"
    /\ op' = "alert_closed"
    /\ scheduled' = IF timer'.running THEN 1 ELSE 0
    /\ pending' = pending + scheduled'
    /\ pending' <= MaxPending
    /\ UNCHANGED <<now, pre, args, fired, update_at, fresh_start,
                   pause_zero_throughout, settings_vars, run_vars>>

\* The clock moves on by a tick inside the current window, or by JumpTicks
\* into the next one. Between handlers this ends what the history variables
\* record of the last handler.
AppAdvance ==
    /\ \E d \in {1, JumpTicks} :
          /\ d = 1 => (now % JumpTicks) + 1 <= AppWindow
          /\ now + d <= LastTick
          /\ now' = now + d
    /\ op' = "advance"
    /\ IF pc = "idle"
       THEN /\ pre' = timer
            /\ args' = <<>>
            /\ fired' = <<>>
            /\ update_at' = None
            /\ scheduled' = 0
       ELSE UNCHANGED <<pre, args, fired, update_at, scheduled>>
    /\ UNCHANGED <<timer, pc, fresh_start, pause_zero_throughout,
                   settings_vars, pending, run_vars>>

AppNext ==
    \/ ToggleTimer
    \/ ResetTimer
    \/ PromptDuration
    \/ PromptCancelled
    \/ Tick
    \/ Focus
    \/ AlertClosed
    \/ AppAdvance

SpecApp == AppInit /\ [][AppNext]_vars

\* The settings files of the fair specification: a pause phase of one minute
\* or none, or a work alert that is switched off or whose flag does not
\* parse.
LiveFiles ==
    {f \in AppFiles :
        \/ /\ "pause_duration_minutes" \in DOMAIN f.opts
           /\ f.opts["pause_duration_minutes"] \in {StrInt(0), StrInt(1)}
        \/ /\ "show_work_complete_alert" \in DOMAIN f.opts
           /\ f.opts["show_work_complete_alert"] # StrBool(TRUE)}

\* The event loop delivers a pending callback: a Tick that would change the
\* state is not postponed forever.
LiveInit == AppInitOn(LiveFiles)

SpecAppLive == LiveInit /\ [][AppNext]_vars /\ WF_vars(Tick)

\* ------------------------------------------- the configuration window
\* ConfigWindow (src/ui/config_window.py) on top of the application: the
\* Apply, OK and Cancel buttons. The form holds what the user typed and
\* picked; it is read when a button is clicked.

\* The forms: a duration entry holds an integer or a text that is none, and
\* one of the two holds "1"; the check boxes are set or not and the work
\* color is one of two that Tk accepts, all three going with the pause
\* entry so that the forms stay few.
FormTexts == {StrInt(n) : n \in Minutes} \cup {<<"x">>}
Forms ==
    { [work_duration |-> w, pause_duration |-> p,
       always_on_top |-> (p = StrInt(1)),
       work_color |-> IF p = StrInt(1) THEN <<"#", "0", "0", "f">>
                                       ELSE <<"b", "l", "u", "e">>,
       pause_color |-> <<"b", "l", "u", "e">>,
       show_work_alert |-> (p = StrInt(1)),
       show_pause_alert |-> (p # StrInt(1))] :
        w \in FormTexts, p \in FormTexts }

\* The user's input at a button click.
Inputs == {f \in Forms : StrInt(1) \in {f.work_duration, f.pause_duration}}

\* Faulty variant of _apply_settings: the two range tests are missing.
apply_settings_unvalidated(c, f) ==
    LET work == ParseInt(f.work_duration)
        pause_ == ParseInt(f.pause_duration)
    IN  IF ~work.ok \/ ~pause_.ok
        THEN [applied |-> FALSE, config |-> c]
        ELSE [applied |-> TRUE,
              config |->
                set_show_pause_alert(
                  set_show_work_alert(
                    set_pause_timer_color(
                      set_work_timer_color(
                        set_always_on_top(
                          set_pause_duration_minutes(
                            set_custom_duration_minutes(c, work.value),
                            pause_.value),
                          f.always_on_top),
                        f.work_color),
                      f.pause_color),
                    f.show_work_alert),
                  f.show_pause_alert)]

\* ConfigWindow._apply_settings, lines 203-226, on parser c and form f: the
\* two texts are converted and range-checked, which raises ValueError
\* before anything is set (applied = FALSE); otherwise the setters are
\* called in turn.
apply_settings(c, f) ==
    LET work == ParseInt(f.work_duration)
        pause_ == ParseInt(f.pause_duration)
    IN  IF ~work.ok \/ ~pause_.ok \/ work.value <= 0 \/ pause_.value < 0
        THEN [applied |-> FALSE, config |-> c]
        ELSE [applied |-> TRUE,
              config |->
                set_show_pause_alert(
                  set_show_work_alert(
                    set_pause_timer_color(
                      set_work_timer_color(
                        set_always_on_top(
                          set_pause_duration_minutes(
                            set_custom_duration_minutes(c, work.value),
                            pause_.value),
                          f.always_on_top),
                        f.work_color),
                      f.pause_color),
                    f.show_work_alert),
                  f.show_pause_alert)]

\* Faulty variant of _on_settings_changed: the pause duration is not reloaded.
on_settings_changed_work_only(t, c) ==
    set_work_duration(t,
        (get_custom_duration_minutes(c).value * SecondsPerMinute)
            \div SecondsPerMinute)

\* PomodoroApp._on_settings_changed, lines 175-178: the durations are read
\* back from the settings and handed to the timer.
on_settings_changed(t, c) ==
    LET work_duration == get_custom_duration_minutes(c).value * SecondsPerMinute
        pause_duration == get_pause_duration_minutes(c).value * SecondsPerMinute
    IN  set_pause_duration(
            set_work_duration(t, work_duration \div SecondsPerMinute),
            pause_duration \div SecondsPerMinute)

\* ConfigWindow._apply_settings as the handler of the Apply button, and of
\* the OK button, whose _ok_button_clicked runs it and then closes the
\* window; the history keeps the two duration texts of the form. On a valid
\* form the settings are set and saved and _on_settings_changed runs, which
\* reloads the durations, reads the colors and the always-on-top flag (a
\* getter that raises ends it there, the exception is caught in
\* _apply_settings) and resets the timer through reset_timer(); on an
\* invalid form an error box is shown.
ApplySettings ==
    /\ pc = "idle"
    /\ \E f \in Inputs :
       \E r \in {apply_settings(config, f)} :
       \E t \in {on_settings_changed(timer, r.config)} :
          /\ op' = "apply_settings"
          /\ args' = <<f.work_duration, f.pause_duration>>
          /\ pre' = timer
          /\ IF r.applied
             THEN /\ config' = r.config
                  /\ file' = save_settings(config')
                  /\ saved' = config'
                  /\ pause_zero_throughout' =
                        (pause_zero_throughout /\ t.pause_duration_seconds = 0)
                  /\ IF \/ get_work_timer_color(config').raised
                        \/ get_pause_timer_color(config').raised
                        \/ get_always_on_top(config').raised
                     THEN /\ timer' = t
                          /\ UNCHANGED <<pc, fired, update_at, app_vars>>
                     ELSE update_display(reset(t), 0)
             ELSE UNCHANGED <<timer, pc, fired, update_at, config, file, saved,
                              pause_zero_throughout, app_vars>>
    /\ UNCHANGED <<now, fresh_start, nsets, run_vars>>

\* ConfigWindow._cancel_button_clicked: the window closes
CancelButtonClicked ==
    /\ pc = "idle"
    /\ Handler("cancel_button", <<>>)
    /\ UNCHANGED <<timer, pc, fired, update_at, config, file, saved, app_vars>>

ConfigNext ==
    \/ AppNext
    \/ ApplySettings
    \/ CancelButtonClicked

\* The configuration window is tried on an application that found no
\* settings file.
ConfigFiles == {MissingFile}

ConfigInit == AppInitOn(ConfigFiles)

SpecConfig == ConfigInit /\ [][ConfigNext]_vars

\* ------------------------------------------------ the legacy comparison
\* TimerCore with pause duration 0 and no callbacks next to the legacy
\* PomodoroTimer, both built on the same duration and driven by the same
\* operations at the same clock readings.

LegacyInit ==
    /\ \E w \in Durations :
          /\ timer = TimerCore(w, 0, FALSE, FALSE)
          /\ legacy = PomodoroTimer(w)
    /\ pause_zero_throughout = TRUE
    /\ now = 0
    /\ pc = "idle"
    /\ op = "init"
    /\ pre = timer
    /\ args = <<>>
    /\ fired = <<>>
    /\ update_at = None
    /\ fresh_start = None
    /\ config = EmptyConfig
    /\ file = MissingFile
    /\ saved = EmptyConfig
    /\ nsets = 0
    /\ pending = 0
    /\ scheduled = 0
    /\ log = <<>>
    /\ ran = 0

\* One operation on both timers: TimerCore is left as t, PomodoroTimer as l.
BothCall(name, a, t, l) ==
    /\ timer' = t
    /\ legacy' = l
    /\ op' = name
    /\ pre' = timer
    /\ args' = a
    /\ UNCHANGED <<now, pc, fired, update_at, fresh_start, pause_zero_throughout,
                   settings_vars, app_vars, log, ran>>

\* TimerCore.toggle and PomodoroTimer.toggle_timer
BothToggle ==
    BothCall("toggle", <<>>, toggle(timer, now),
             PomodoroTimer_toggle_timer(legacy, now))

\* TimerCore.reset and PomodoroTimer.reset_timer
BothReset ==
    BothCall("reset", <<>>, reset(timer), PomodoroTimer_reset_timer(legacy, now))

\* The duration prompt returned an integer >= 1: TimerCore.set_work_duration
\* followed by reset, and PomodoroTimer.prompt_duration
BothPrompt ==
    \E m \in 1..MaxMin :
        BothCall("prompt_duration", <<m>>, reset(set_work_duration(timer, m)),
                 PomodoroTimer_prompt_duration(legacy, m, now))

\* A redraw tick: TimerCore.update and the expiry check of
\* PomodoroTimer.update_display
BothTick ==
    BothCall("tick", <<>>, update(timer, now),
             PomodoroTimer_update_display(legacy, now))

LegacyNext ==
    \/ BothToggle
    \/ BothReset
    \/ BothPrompt
    \/ BothTick
    \/ Advance

SpecLegacy == LegacyInit /\ [][LegacyNext]_vars

\* ------------------------------------------------------- derived history

\* The phase the current or last update() found finished, "none" otherwise.
finished ==
    IF update_at # None /\ is_finished(pre, update_at)
    THEN pre.current_phase ELSE "none"

\* update() has returned at this clock reading and nothing happened since.
UpdateReturned == op = "update" /\ pc = "idle"

W == timer.work_duration_seconds
P == timer.pause_duration_seconds
TimeLeft == get_time_left(timer, now)

\* ------------------------------------------------- the running-time account
\* TimerCore without callbacks under start(), pause(), update() and the
\* clock, with `ran` counting the ticks the clock moved while the timer was
\* running in the current phase. The count of a completed phase stands until
\* the next step after the completing update().

\* The running time of the current phase: a completed phase's count is
\* dropped.
ran_now == IF finished # "none" THEN 0 ELSE ran

RunInit ==
    /\ \E w \in Durations, p \in PauseDurations :
          /\ timer = TimerCore(w, p, FALSE, FALSE)
          /\ pause_zero_throughout = (p = 0)
    /\ now = 0
    /\ pc = "idle"
    /\ op = "init"
    /\ pre = timer
    /\ args = <<>>
    /\ fired = <<>>
    /\ update_at = None
    /\ fresh_start = None
    /\ config = EmptyConfig
    /\ file = MissingFile
    /\ saved = EmptyConfig
    /\ nsets = 0
    /\ pending = 0
    /\ scheduled = 0
    /\ legacy = PomodoroTimer(LEGACY_DEFAULT_DURATION_SECONDS)
    /\ log = <<>>
    /\ ran = 0

\* A method is called at clock reading update_at' (None unless it is
\* update()) and leaves the timer as t.
RunCall(name, t, at) ==
    /\ timer' = t
    /\ op' = name
    /\ pre' = timer
    /\ update_at' = at
    /\ ran' = ran_now
    /\ UNCHANGED <<now, pc, args, fired, fresh_start, pause_zero_throughout,
                   settings_vars, app_vars, legacy, log>>

RunStart == RunCall("start", start(timer, now), None)

RunPause == RunCall("pause", pause(timer, now), None)

RunUpdate == RunCall("update", update(timer, now), now)

\* The clock advances, by a tick or by a second; a running timer has run
\* that long.
RunAdvance ==
    /\ \E d \in {1, Res} :
          /\ now + d <= MaxNow
          /\ now' = now + d
          /\ ran' = ran_now + (IF timer.running THEN d ELSE 0)
    /\ op' = "advance"
    /\ pre' = timer
    /\ update_at' = None
    /\ UNCHANGED <<timer, pc, args, fired, fresh_start, pause_zero_throughout,
                   settings_vars, app_vars, legacy, log>>

RunNext ==
    \/ RunStart
    \/ RunPause
    \/ RunUpdate
    \/ RunAdvance

SpecRun == RunInit /\ [][RunNext]_vars

\* ------------------------------------------------------- the full cycle
\* TimerCore with a pause phase, started once and then left to the clock
\* and to the redraw callbacks, which call update(); callbacks return at
\* once (nobody is there to close an alert). `log` records the callbacks
\* invoked.

\* The last clock reading of a cycle: both phases at their longest.
CycleEnd == 2 * MaxSec * Res

\* TimerCore(w, p) with w, p > 0 is built and start() is called.
CycleInit ==
    /\ \E w \in Durations, p \in Durations, wcb \in BOOLEAN, pcb \in BOOLEAN :
          timer = start(TimerCore(w, p, wcb, pcb), 0)
    /\ pause_zero_throughout = FALSE
    /\ now = 0
    /\ pc = "idle"
    /\ op = "start"
    /\ pre = reset(timer)
    /\ args = <<>>
    /\ fired = <<>>
    /\ update_at = None
    /\ fresh_start = 0
    /\ config = EmptyConfig
    /\ file = MissingFile
    /\ saved = EmptyConfig
    /\ nsets = 0
    /\ pending = 0
    /\ scheduled = 0
    /\ legacy = PomodoroTimer(LEGACY_DEFAULT_DURATION_SECONDS)
    /\ log = <<>>
    /\ ran = 0

\* A redraw callback runs: update(), whose callback returns at once.
CycleUpdate ==
    LET cb == IF is_finished(timer, now) THEN update_callback(timer) ELSE "none"
    IN  /\ timer' = update(timer, now)
        /\ fired' = IF cb = "none" THEN <<>> ELSE <<cb>>
        /\ log' = IF cb = "none" THEN log ELSE Append(log, cb)
        /\ op' = "update"
        /\ pre' = timer
        /\ update_at' = now
        /\ UNCHANGED <<now, pc, args, fresh_start, pause_zero_throughout,
                       settings_vars, app_vars, legacy, ran>>

\* The clock advances, by a tick or by a second. Redraw callbacks come more
\* often than the clock ticks: a finished phase gets its update() before
\* the clock moves on.
CycleAdvance ==
    /\ ~is_finished(timer, now)
    /\ \E d \in {1, Res} :
          /\ now + d <= CycleEnd
          /\ now' = now + d
    /\ op' = "advance"
    /\ pre' = timer
    /\ fired' = <<>>
    /\ update_at' = None
    /\ UNCHANGED <<timer, pc, args, fresh_start, pause_zero_throughout,
                   settings_vars, app_vars, run_vars>>

CycleNext ==
    \/ CycleUpdate
    \/ CycleAdvance

\* The clock keeps advancing and the callbacks keep being delivered.
SpecCycle ==
    CycleInit /\ [][CycleNext]_vars /\ WF_vars(CycleUpdate) /\ WF_vars(CycleAdvance)

\* ----------------------------------------------------------------- claims

\* C1: in every reachable state, between calls and inside a completion
\* callback alike, running is true exactly when target_end_time is set.
C1_RunningIffTarget ==
    timer.running <=> (timer.target_end_time # None)

\* C1 witness: update() has auto-started the pause phase (running with a target
\* set), after the clock moved past the work deadline.
C1_Witness ==
    /\ UpdateReturned
    /\ finished = TIMER_PHASE_WORK
    /\ timer.running
    /\ timer.target_end_time # None
    /\ now > 0

\* The update() call at hand was entered exactly W seconds after a start() from
\* the freshly reset state, with nothing but update() called in between, and
\* with a pause duration P > 0.
AtWorkDeadline ==
    /\ update_at # None
    /\ fresh_start # None
    /\ update_at = fresh_start + W * Res
    /\ P > 0

\* C2: phase-transition law. An update() entered exactly W seconds after a
\* start() from the freshly reset state (not paused since, P > 0) invokes the
\* work-complete callback exactly once and the pause-complete callback not at
\* all, and when it has returned the phase is PAUSE, the timer runs and
\* get_time_left() is P.
C2_PhaseTransitionLaw ==
    AtWorkDeadline =>
        /\ finished = TIMER_PHASE_WORK
        /\ timer.on_work_complete => fired = <<"work">>
        /\ ~timer.on_work_complete => fired = <<>>
        /\ UpdateReturned =>
              /\ timer.current_phase = TIMER_PHASE_PAUSE
              /\ timer.running
              /\ TimeLeft = P

\* C2 witness: such an update() has returned, the callback having been invoked.
C2_Witness ==
    /\ AtWorkDeadline
    /\ UpdateReturned
    /\ fired = <<"work">>
    /\ timer.current_phase = TIMER_PHASE_PAUSE
    /\ timer.running
    /\ TimeLeft = P

\* C3: disabled-pause law. From the moment update() finds a running WORK phase
\* finished with pause duration 0, through the callback and after the return,
\* the phase stays WORK, the timer is stopped and the pause-complete callback
\* is not invoked; and as long as the pause duration has been 0 since
\* construction, the phase is WORK and no pause-complete callback is invoked
\* or running.
C3_DisabledPauseLaw ==
    /\ (finished = TIMER_PHASE_WORK /\ pre.pause_duration_seconds = 0) =>
          /\ timer.current_phase = TIMER_PHASE_WORK
          /\ ~timer.running
          /\ \A i \in 1..Len(fired) : fired[i] # "pause"
          /\ pc # "pause"
    /\ pause_zero_throughout =>
          /\ timer.current_phase = TIMER_PHASE_WORK
          /\ \A i \in 1..Len(fired) : fired[i] # "pause"
          /\ pc # "pause"

\* C3 witness: update() has returned from completing a work phase of a timer
\* whose pause duration was 0 all along.
C3_Witness ==
    /\ UpdateReturned
    /\ finished = TIMER_PHASE_WORK
    /\ pause_zero_throughout
    /\ P = 0
    /\ ~timer.running

\* C4: when update() finds a running PAUSE phase finished it invokes the
\* pause-complete callback exactly once and the work-complete callback not at
\* all; when it has returned the phase is WORK, the timer is stopped with no
\* target and get_time_left() is work_duration_seconds. The work phase is not
\* auto-started: a stopped timer is only ever set running by start() or
\* toggle(), or by the auto-start of the pause phase inside update().
C4_PauseCompletion ==
    /\ finished = TIMER_PHASE_PAUSE =>
          /\ timer.on_pause_complete => fired = <<"pause">>
          /\ ~timer.on_pause_complete => fired = <<>>
          /\ UpdateReturned =>
                /\ timer.current_phase = TIMER_PHASE_WORK
                /\ ~timer.running
                /\ timer.target_end_time = None
                /\ TimeLeft = W
    /\ (timer.running /\ timer.current_phase = TIMER_PHASE_WORK /\ ~pre.running) =>
          op \in {"start", "toggle"}

\* C4 witness: update() has returned from completing a pause phase.
C4_Witness ==
    /\ UpdateReturned
    /\ finished = TIMER_PHASE_PAUSE
    /\ fired = <<"pause">>
    /\ ~timer.running
    /\ TimeLeft = W

\* C5: ordering on work completion. While the work-complete callback runs the
\* timer is already stopped with no target and the phase is still WORK; the
\* pause phase is entered and started only when the callback has returned, its
\* deadline is the clock reading at the return plus P, and get_time_left() is
\* P right after update() returns, however long the callback blocked.
C5_WorkCompletionOrdering ==
    /\ pc = "work" =>
          /\ fired = <<"work">>
          /\ ~timer.running
          /\ timer.target_end_time = None
          /\ timer.current_phase = TIMER_PHASE_WORK
    /\ (UpdateReturned /\ finished = TIMER_PHASE_WORK /\ P > 0) =>
          /\ timer.current_phase = TIMER_PHASE_PAUSE
          /\ timer.running
          /\ timer.target_end_time = now + P * Res
          /\ TimeLeft = P

\* C5 witness: update() has returned from a work-complete callback that
\* blocked for at least a second, with the pause phase started.
C5_Witness ==
    /\ UpdateReturned
    /\ finished = TIMER_PHASE_WORK
    /\ fired = <<"work">>
    /\ P > 0
    /\ now >= update_at + Res
    /\ timer.current_phase = TIMER_PHASE_PAUSE
    /\ TimeLeft = P

\* C6: reset() from any reachable state leaves phase WORK, the timer stopped
\* with no target and get_time_left() = work_duration_seconds (the configured
\* durations untouched), invokes no callback, and leaves nothing for update()
\* to finish at any later clock reading; update() on a stopped timer changes
\* nothing and invokes no callback.
C6_Reset ==
    /\ op = "reset" =>
          /\ timer.current_phase = TIMER_PHASE_WORK
          /\ ~timer.running
          /\ timer.target_end_time = None
          /\ TimeLeft = W
          /\ W = pre.work_duration_seconds
          /\ P = pre.pause_duration_seconds
          /\ fired = <<>>
          /\ pc = "idle"
          /\ \A clock \in now..MaxNow : ~is_finished(timer, clock)
    /\ (op = "update" /\ ~pre.running) =>
          /\ timer = pre
          /\ fired = <<>>
          /\ pc = "idle"

\* C6 witness: reset() was called on a running pause phase whose deadline had
\* passed without update() having been called.
C6_Witness ==
    /\ op = "reset"
    /\ pre.running
    /\ pre.current_phase = TIMER_PHASE_PAUSE
    /\ pre.target_end_time < now
    /\ TimeLeft = W

\* C7: start() on a stopped timer with cached remaining r sets running, sets
\* target_end_time to now + r, leaves the phase and both configured durations
\* alone, and get_time_left() at the same clock reading is r.
C7_Start ==
    (op = "start" /\ ~pre.running) =>
        /\ timer.running
        /\ timer.target_end_time = now + pre.duration * Res
        /\ timer.current_phase = pre.current_phase
        /\ W = pre.work_duration_seconds
        /\ P = pre.pause_duration_seconds
        /\ TimeLeft = get_time_left(pre, now)
        /\ TimeLeft = pre.duration

\* C7 witness: start() resumed a timer that had been paused part-way through.
C7_Witness ==
    /\ op = "start"
    /\ ~pre.running
    /\ pre.duration > 0
    /\ pre.duration < pre.work_duration_seconds
    /\ pre.current_phase = TIMER_PHASE_WORK
    /\ timer.running
    /\ TimeLeft = pre.duration

\* C8: start() on a running timer changes nothing, whatever the clock reads:
\* the deadline is not pushed back.
C8_StartIdempotent ==
    (op = "start" /\ pre.running) => timer = pre

\* C8 witness: start() was called on a timer that had been running for a
\* fraction of a second more than a whole number of seconds.
C8_Witness ==
    /\ op = "start"
    /\ pre.running
    /\ pre.target_end_time > now
    /\ (pre.target_end_time - now) % Res # 0
    /\ get_time_left(pre, now) < pre.duration

\* floor((target - clock) / Res), clamped at 0, in whole seconds.
FloorRemaining(target, clock) == Max(0, (target - clock) \div Res)

\* C9: pause() on a running timer stores max(0, floor(target_end_time - now))
\* as the cached remaining, clears the target and running, keeps the phase and
\* invokes no callback; pause() on a stopped timer changes nothing.
C9_Pause ==
    op = "pause" =>
        IF pre.running
        THEN /\ timer.duration = FloorRemaining(pre.target_end_time, now)
             /\ timer.duration >= 0
             /\ timer.target_end_time = None
             /\ ~timer.running
             /\ timer.current_phase = pre.current_phase
             /\ fired = <<>>
             /\ pc = "idle"
        ELSE timer = pre

\* C9 witness: pause() stopped a timer whose deadline had passed by more than
\* a second (the clamp applies).
C9_Witness ==
    /\ op = "pause"
    /\ pre.running
    /\ pre.target_end_time + Res < now
    /\ timer.duration = 0
    /\ ~timer.running

\* C10: toggle() leaves the timer as pause() would when it was running and as
\* start() would otherwise; it inverts running and keeps the phase.
C10_Toggle ==
    op = "toggle" =>
        /\ pre.running => timer = pause(pre, now)
        /\ ~pre.running => timer = start(pre, now)
        /\ timer.running = ~pre.running
        /\ timer.current_phase = pre.current_phase

\* C10 witness: toggle() stopped a running pause phase.
C10_Witness ==
    /\ op = "toggle"
    /\ pre.running
    /\ ~timer.running
    /\ timer.current_phase = TIMER_PHASE_PAUSE

\* C11: get_time_left() is a non-negative integer in every reachable state;
\* while the timer runs it is max(0, floor(target_end_time - now)), derived
\* from the deadline and not read from the cached duration, and while the
\* timer is stopped it is the cached duration.
C11_TimeLeft ==
    /\ TimeLeft \in Nat
    /\ timer.running =>
        /\ timer.target_end_time # None
        /\ TimeLeft = FloorRemaining(timer.target_end_time, now)
    /\ ~timer.running => TimeLeft = timer.duration

\* C11 witness: a running timer whose deadline has passed reports 0 while
\* its cached duration is still positive.
C11_Witness ==
    /\ timer.running
    /\ timer.target_end_time < now
    /\ TimeLeft = 0
    /\ timer.duration > 0

\* C12: update() on a stopped timer, or on a running timer with
\* get_time_left() > 0, changes no field of the timer and invokes no
\* callback; on a running timer it completes the phase exactly when
\* max(0, floor(target_end_time - now)) is 0, which depends on the deadline
\* and the clock reading only and not on earlier update() calls.
C12_TickIndependence ==
    op = "update" =>
        /\ (~pre.running \/ get_time_left(pre, update_at) > 0) =>
            /\ timer = pre
            /\ fired = <<>>
            /\ pc = "idle"
        /\ pre.running =>
            ((timer # pre) <=>
                FloorRemaining(pre.target_end_time, update_at) = 0)

\* C12 witness: update() returned on a running work phase that was started
\* from a freshly reset timer, part of which has elapsed and which has time
\* left.
C12_Witness ==
    /\ op = "update"
    /\ pre.running
    /\ fresh_start # None
    /\ update_at > fresh_start
    /\ get_time_left(pre, update_at) > 0
    /\ get_time_left(pre, update_at) < pre.duration

\* C13: set_work_duration(m) with m <= 0 and set_pause_duration(m) with m < 0
\* return and leave every field of the timer as it was;
\* set_pause_duration(0) is accepted and sets pause_duration_seconds to 0.
C13_InvalidDurationRejected ==
    /\ (op = "set_work_duration" /\ args[1] <= 0) =>
        /\ timer = pre
        /\ pc = "idle"
    /\ (op = "set_pause_duration" /\ args[1] < 0) =>
        /\ timer = pre
        /\ pc = "idle"
    /\ (op = "set_pause_duration" /\ args[1] = 0) =>
        /\ timer.pause_duration_seconds = 0
        /\ pc = "idle"

\* C13 witness: set_work_duration(0) was called on a running work phase.
C13_Witness ==
    /\ op = "set_work_duration"
    /\ args = <<0>>
    /\ pre.running
    /\ pre.current_phase = TIMER_PHASE_WORK

\* C14: after set_work_duration(m), m > 0, in the work phase, or
\* set_pause_duration(m), m >= 0, in the pause phase, get_time_left() is
\* m * 60, whether the timer is running or stopped.
C14_ActiveDurationChange ==
    /\ (op = "set_work_duration" /\ args[1] > 0
            /\ pre.current_phase = TIMER_PHASE_WORK) =>
        TimeLeft = args[1] * SecondsPerMinute
    /\ (op = "set_pause_duration" /\ args[1] >= 0
            /\ pre.current_phase = TIMER_PHASE_PAUSE) =>
        TimeLeft = args[1] * SecondsPerMinute

\* C16: while update() is suspended inside a completion callback, the timer
\* stays as the suspended call left it (the phase, the duration, stopped and
\* without deadline), whatever re-entrant update() calls occur, and the only
\* callback invoked is the one in progress.
C16_NoReentrantMutation ==
    pc # "idle" =>
        /\ timer.current_phase = pre.current_phase
        /\ timer.duration = pre.duration
        /\ ~timer.running
        /\ timer.target_end_time = None
        /\ timer.work_duration_seconds = pre.work_duration_seconds
        /\ timer.pause_duration_seconds = pre.pause_duration_seconds
        /\ fired = <<pc>>

\* C16 witness: update() was re-entered during the work-complete callback
\* after the clock had moved on.
C16_Witness ==
    /\ pc = "work"
    /\ op = "reentrant_update"
    /\ now > update_at

\* C15: a newly constructed TimerCore is in the work phase, stopped, without
\* deadline, with get_time_left() = work_duration_seconds and no completion
\* callback invoked; the application constructs it with the work and pause
\* durations read from the settings, minutes * 60.
C15_InitialState ==
    op \in {"init", "restart", "save_restart"} =>
        /\ timer.current_phase = TIMER_PHASE_WORK
        /\ ~timer.running
        /\ timer.target_end_time = None
        /\ TimeLeft = timer.work_duration_seconds
        /\ fired = <<>>
        /\ pc = "idle"
        /\ timer.work_duration_seconds =
               get_custom_duration_minutes(config).value * SecondsPerMinute
        /\ timer.pause_duration_seconds =
               get_pause_duration_minutes(config).value * SecondsPerMinute

\* C15 witness: the application was started on a saved file that holds a
\* work duration of one minute and a pause duration of 0.
C15_Witness ==
    /\ op = "save_restart"
    /\ timer.work_duration_seconds = SecondsPerMinute
    /\ timer.pause_duration_seconds = 0
    /\ TimeLeft = SecondsPerMinute

Restrict(c, K) ==
    [sections |-> c.sections,
     opts |-> [k \in DOMAIN c.opts \cap K |-> c.opts[k]]]

\* The options getter g reads are all present in parser c and their texts
\* parse as the getter's type.
StoredValid(c, g) ==
    /\ \A k \in OptionsOf(g) : has_option(c, k)
    /\ IF g \in {"get_window_position", "get_font_size",
                 "get_custom_duration_minutes", "get_pause_duration_minutes"}
       THEN \A k \in OptionsOf(g) : getint(c, k).ok
       ELSE IF g \in {"get_show_work_alert", "get_show_pause_alert",
                      "get_always_on_top"}
       THEN \A k \in OptionsOf(g) : getboolean(c, k).ok
       ELSE \A k \in OptionsOf(g) : config_get(c, k).ok

\* C19: whatever is stored -- section absent, option absent, or a text that
\* does not parse as the field's type -- every getter returns a value and
\* never raises, the value is the built-in default when the stored one is
\* missing or invalid, and it does not depend on what is stored for other
\* fields.
C19_PerFieldFallback ==
    \A g \in Getters :
        /\ ~Get(config, g).raised
        /\ ~StoredValid(config, g) => Get(config, g) = Returns(DefaultOf(g))
        /\ Get(config, g) = Get(Restrict(config, OptionsOf(g)), g)

\* C20: whatever the settings hold, get_custom_duration_minutes() returns an
\* integer > 0 and get_pause_duration_minutes() an integer >= 0, a stored
\* work value <= 0 or pause value < 0 being replaced by the default; the
\* timer built from the settings has work_duration_seconds > 0 and
\* pause_duration_seconds >= 0.
C20_DurationGetters ==
    LET w == get_custom_duration_minutes(config)
        p == get_pause_duration_minutes(config)
        sw == getint(config, "custom_duration_minutes")
        sp == getint(config, "pause_duration_minutes")
    IN  /\ ~w.raised /\ w.value \in Nat \ {0}
        /\ ~p.raised /\ p.value \in Nat
        /\ (sw.ok /\ sw.value <= 0) => w.value = DEFAULT_DURATION_MINUTES
        /\ (sp.ok /\ sp.value < 0) => p.value = DEFAULT_PAUSE_DURATION_MINUTES
        /\ AppTimer(config).work_duration_seconds > 0
        /\ AppTimer(config).pause_duration_seconds >= 0
        /\ timer.work_duration_seconds > 0
        /\ timer.pause_duration_seconds >= 0

\* C20 witness: the application was started on a file that stores a work
\* duration <= 0.
C20_Witness ==
    /\ op = "init"
    /\ getint(config, "custom_duration_minutes").ok
    /\ getint(config, "custom_duration_minutes").value <= 0
    /\ timer.work_duration_seconds = DEFAULT_DURATION_MINUTES * SecondsPerMinute

\* A phase is running and its deadline has passed.
Overdue == timer.running /\ is_finished(timer, now)

\* The handlers that call update_display.
DisplayHandlers ==
    {"init", "toggle_timer", "reset_timer", "prompt_duration", "tick", "focus",
     "alert_closed"}

C24_InactiveDurationChange ==
    /\ (op = "set_pause_duration" /\ pre.current_phase = TIMER_PHASE_WORK) =>
          /\ timer = [pre EXCEPT !.pause_duration_seconds = timer.pause_duration_seconds]
          /\ TimeLeft = get_time_left(pre, now)
    /\ (op = "set_work_duration" /\ pre.current_phase = TIMER_PHASE_PAUSE) =>
          /\ timer = [pre EXCEPT !.work_duration_seconds = timer.work_duration_seconds]
          /\ TimeLeft = get_time_left(pre, now)
    /\ (UpdateReturned /\ finished = TIMER_PHASE_WORK /\ P > 0) =>
          /\ timer.current_phase = TIMER_PHASE_PAUSE
          /\ timer.duration = P
          /\ TimeLeft = P
    /\ (UpdateReturned /\ finished = TIMER_PHASE_PAUSE) =>
          /\ timer.current_phase = TIMER_PHASE_WORK
          /\ timer.duration = W
    /\ op = "reset" => timer.duration = W

\* C24 witness: set_pause_duration(m) with an accepted m changed the pause
\* duration of a timer running in the work phase.
C24_Witness ==
    /\ op = "set_pause_duration"
    /\ args[1] >= 0
    /\ pre.current_phase = TIMER_PHASE_WORK
    /\ pre.running
    /\ timer.pause_duration_seconds # pre.pause_duration_seconds

\* C26: when update() has completed a phase and left the timer stopped in
\* the work phase (a pause completion, or a work completion with pause
\* duration 0), get_time_left() is work_duration_seconds.
C26_FreshWorkInterval ==
    (/\ UpdateReturned
     /\ finished # "none"
     /\ ~timer.running
     /\ timer.current_phase = TIMER_PHASE_WORK) => TimeLeft = W

\* C27: update() completes a phase (stops the timer, invokes the callback)
\* only at a clock reading at or after the deadline target_end_time.
C27_NeverEarly ==
    finished # "none" => update_at >= pre.target_end_time

\* C28: completion is detected once per phase. Once update() has been
\* entered, a further update() at the same clock reading finds nothing
\* finished; an update() invokes at most one callback, it invokes the
\* callback of phase p exactly when it found the running phase p expired and
\* that callback is registered, and so never on a stopped timer.
C28_CompletionOnce ==
    /\ (op \in {"update", "reentrant_update"}) => ~is_finished(timer, now)
    /\ Len(fired) <= 1
    /\ fired # <<>> =>
          /\ update_at # None
          /\ pre.running
          /\ get_time_left(pre, update_at) = 0
          /\ fired = <<pre.current_phase>>
    /\ (finished # "none" /\ update_callback(pre) # "none") => fired = <<finished>>

\* C28 witness: update() has returned from completing a pause phase whose
\* callback it invoked, the second completion of the behavior.
C28_Witness ==
    /\ UpdateReturned
    /\ finished = TIMER_PHASE_PAUSE
    /\ fired = <<"pause">>
    /\ ~timer.running

\* C29: at most one update_display callback is pending on the event loop,
\* whatever handlers have run.
C29_SingleRedrawChain == pending <= 1

\* C30: after every step of TimerCore (pause duration 0, no callbacks) and
\* the legacy PomodoroTimer through the same toggle, reset, accepted
\* duration prompt and tick operations and clock advances, the two have the
\* same running flag, the same target_end_time and the same get_time_left().
C30_LegacyRefinement ==
    /\ timer.running = legacy.running
    /\ timer.target_end_time = legacy.target_end_time
    /\ get_time_left(timer, now) = PomodoroTimer_get_time_left(legacy, now)

\* The configured length, in seconds, of the phase timer t is in.
PhaseSeconds(t) ==
    IF t.current_phase = TIMER_PHASE_WORK
    THEN t.work_duration_seconds ELSE t.pause_duration_seconds

\* C25: pause and resume conserve the remaining time. start() on a stopped
\* timer gives get_time_left() equal to the remaining time pause() cached,
\* whatever the clock did in between, and sets the deadline that far ahead;
\* and a phase completes after its full duration of running time, time spent
\* stopped not counted: update() does not complete a phase that has run less
\* than its duration, and a running phase that has run its duration is
\* finished.
C25_PauseResumeConserves ==
    /\ (op = "start" /\ ~pre.running) =>
          /\ TimeLeft = pre.duration
          /\ timer.target_end_time = now + pre.duration * Res
    /\ finished # "none" => ran >= PhaseSeconds(pre) * Res
    /\ (timer.running /\ ran_now >= PhaseSeconds(timer) * Res) =>
          is_finished(timer, now)

\* The callbacks a full cycle of the timer invokes: those registered, the
\* work-complete callback first.
CycleCallbacks ==
    (IF timer.on_work_complete THEN <<"work">> ELSE <<>>)
        \o (IF timer.on_pause_complete THEN <<"pause">> ELSE <<>>)

\* The cycle is over: the timer is stopped in the work phase with the full
\* work duration left, and each registered callback was invoked once, in
\* order.
CycleDone ==
    /\ timer.current_phase = TIMER_PHASE_WORK
    /\ ~timer.running
    /\ TimeLeft = W
    /\ log = CycleCallbacks

RejectedTexts(a) ==
    \/ ~ParseInt(a[1]).ok
    \/ ParseInt(a[1]).value <= 0
    \/ ~ParseInt(a[2]).ok
    \/ ParseInt(a[2]).value < 0

\* C21: a click on Apply or OK with a work-duration text that is no integer
\* or is <= 0, or a pause-duration text that is no integer or is < 0, changes
\* no setting, does not save the file, does not run the settings-changed
\* callback, and leaves the timer, running or not, and the display as
\* they were.
C21_RejectedApplyChangesNothing ==
    [][(op' = "apply_settings" /\ RejectedTexts(args'))
          => /\ config' = config
             /\ file' = file
             /\ saved' = saved
             /\ timer' = timer
             /\ pc' = pc
             /\ UNCHANGED app_vars]_vars

\* C21 witness: a form with a rejected text was applied while the timer was
\* running in a session whose settings an earlier Apply had written.
C21_Witness ==
    /\ op = "apply_settings"
    /\ RejectedTexts(args)
    /\ timer.running
    /\ pre = timer
    /\ has_option(config, "always_on_top")
    /\ saved = config

====
